---- MODULE Spec2Model ----
(***************************************************************************)
(* The schedule store of packages/scheduler/lib/models/schedules.ts: the   *)
(* `schedules` table, the six persistence operations over it, the state    *)
(* transition table and the mapping between Schedule and its row.          *)
(*                                                                         *)
(* Every operation is an async function.  It runs synchronously up to its  *)
(* first await of a storage query; the storage engine executes the query   *)
(* atomically at some later moment and the operation continues from there. *)
(* Each such segment is one action, so that callers interleave exactly at  *)
(* the awaits.                                                             *)
(***************************************************************************)
EXTENDS Integers, FiniteSets, Sequences, TLC

VARIABLES
    store,   \* the schedules table: a function from the stored ids to rows
    now,     \* the wall clock read by `new Date()`
    pc,      \* per caller: "idle", or the query it is awaiting
    req,     \* per caller: the call in flight: its arguments, the clock reading
             \* `at` of its `new Date()`, and the statement it awaits
    last     \* what the latest step returned, if it was a return: the caller,
             \* the operation, the state its statement found the row in, the Result

vars == <<store, now, pc, req, last>>

-----------------------------------------------------------------------------
(* Bounds of the model. *)

MaxTime == 2
MaxLimit == 2
\* the codec is tried on every frequency up to this one, and on some beyond
MaxCodecMs == 2000

Procs == {"p1", "p2"}
\* the ids uuidv7() hands out, and an id it never hands out
Ids == {"id1", "id2"}
UnknownId == "nonexistent-id"
Names == {"a", "b"}
\* JSON values, by their text: one falsy in JavaScript, one truthy
Payloads == {"null", "{}"}
\* 90061001 ms = 25 h 1 min 1 s 1 ms
FrequencyInputs == {0, 90061001}

-----------------------------------------------------------------------------
(* Types. *)

ScheduleState == {"STARTED", "PAUSED", "DELETED"}

\* `Date | null` of deleted_at: null is no instant of the clock
Null == -1

\* JavaScript truthiness of the values the code tests with `x ? ... : ...` and
\* `if (x)`: a number, a string, a JSON value (by its text)
TruthyNumber(n) == n # 0
TruthyString(s) == s # ""
TruthyJson(v) == v \notin {"null", "false", "0", "\"\""}

Has(obj, field) == field \in DOMAIN obj

-----------------------------------------------------------------------------
(* State transition table. *)

\* the table with PAUSED -> DELETED added to it
validScheduleStateTransitions_pausedDeleted ==
    { [from |-> "STARTED", to |-> "PAUSED"],
      [from |-> "STARTED", to |-> "DELETED"],
      [from |-> "PAUSED",  to |-> "STARTED"],
      [from |-> "PAUSED",  to |-> "DELETED"] }

validScheduleStateTransitions ==
    { [from |-> "STARTED", to |-> "PAUSED"],
      [from |-> "STARTED", to |-> "DELETED"],
      [from |-> "PAUSED",  to |-> "STARTED"] }

\* validate that looks at the target state alone
ScheduleStateTransition_validate_anyFrom(from, to) ==
    \E t \in validScheduleStateTransitions : t.to = to

\* validate({from, to}): Ok when the table holds the pair, Err otherwise
ScheduleStateTransition_validate(from, to) ==
    [from |-> from, to |-> to] \in validScheduleStateTransitions

-----------------------------------------------------------------------------
(* Interval codec. *)

\* the interval literal written to the `frequency` column
IntervalLiteral(frequencyMs) == [n |-> frequencyMs, unit |-> "milliseconds"]

Abs(n) == IF n < 0 THEN -n ELSE n
Sign(n) == IF n < 0 THEN -1 ELSE 1

\* What the engine hands back for a stored "<n> milliseconds" interval: the
\* time part split in hours, minutes, seconds and milliseconds (never carried
\* into days), each field present only when non-zero.
PgInterval(lit) ==
    LET a  == Abs(lit.n)
        s  == Sign(lit.n)
        h  == a \div 3600000
        m  == (a % 3600000) \div 60000
        sc == (a % 60000) \div 1000
        ms == a % 1000
        fields == (IF h  # 0 THEN {"hours"} ELSE {}) \cup
                  (IF m  # 0 THEN {"minutes"} ELSE {}) \cup
                  (IF sc # 0 THEN {"seconds"} ELSE {}) \cup
                  (IF ms # 0 THEN {"milliseconds"} ELSE {})
    IN  [f \in fields |->
            CASE f = "hours"        -> s * h
              [] f = "minutes"      -> s * m
              [] f = "seconds"      -> s * sc
              [] f = "milliseconds" -> s * ms]

\* i.field ?? 0
OrZero(i, field) == IF Has(i, field) THEN i[field] ELSE 0

\* the sum with the milliseconds field left out
postgresIntervalInMs_noMilliseconds(i) ==
    OrZero(i, "years") * 31536 * 1000000 +
    OrZero(i, "months") * 2592 * 1000000 +
    OrZero(i, "days") * 86400000 +
    OrZero(i, "hours") * 3600000 +
    OrZero(i, "minutes") * 60000 +
    OrZero(i, "seconds") * 1000

postgresIntervalInMs(i) ==
    OrZero(i, "years") * 31536 * 1000000 +
    OrZero(i, "months") * 2592 * 1000000 +
    OrZero(i, "days") * 86400000 +
    OrZero(i, "hours") * 3600000 +
    OrZero(i, "minutes") * 60000 +
    OrZero(i, "seconds") * 1000 +
    OrZero(i, "milliseconds")

-----------------------------------------------------------------------------
(* Mapping between Schedule and its row. *)

DbSchedule_to(schedule) ==
    [ id         |-> schedule.id,
      name       |-> schedule.name,
      state      |-> schedule.state,
      starts_at  |-> schedule.startsAt,
      frequency  |-> IntervalLiteral(schedule.frequencyMs),
      payload    |-> schedule.payload,
      created_at |-> schedule.createdAt,
      updated_at |-> schedule.updatedAt,
      deleted_at |-> schedule.deletedAt ]

DbSchedule_from(dbSchedule) ==
    [ id          |-> dbSchedule.id,
      name        |-> dbSchedule.name,
      state       |-> dbSchedule.state,
      startsAt    |-> dbSchedule.starts_at,
      frequencyMs |-> postgresIntervalInMs(dbSchedule.frequency),
      payload     |-> dbSchedule.payload,
      createdAt   |-> dbSchedule.created_at,
      updatedAt   |-> dbSchedule.updated_at,
      deletedAt   |-> dbSchedule.deleted_at ]

-----------------------------------------------------------------------------
(* The storage engine: single statements, each atomic. *)

\* a column of type interval keeps the parsed interval, every other column
\* keeps the value written
Column(col, v) == IF col = "frequency" THEN PgInterval(v) ELSE v

\* INSERT ... RETURNING *
InsertRow(tbl, row) == tbl @@ (row.id :> [c \in DOMAIN row |-> Column(c, row[c])])

\* UPDATE ... SET values WHERE id = ... RETURNING *
UpdateRow(tbl, id, values) ==
    IF id \in DOMAIN tbl
    THEN [tbl EXCEPT ![id] =
            [c \in DOMAIN @ |-> IF Has(values, c) THEN Column(c, values[c]) ELSE @[c]]]
    ELSE tbl

\* the rows RETURNING * yields for WHERE id = ...
Returning(tbl, id) == IF id \in DOMAIN tbl THEN {tbl[id]} ELSE {}

-----------------------------------------------------------------------------
(* Results. *)

Ok(v) == [ok |-> TRUE, value |-> v]
Err(e) == [ok |-> FALSE, error |-> e]

Idle == [op |-> "none"]

\* the latest step returned nothing
NoReturn == [proc |-> "none", op |-> "none", from |-> "none", result |-> Err("none")]

\* the state a statement on id finds the row in
StateOf(tbl, id) == IF id \in DOMAIN tbl THEN tbl[id].state ELSE "none"

\* the operation of caller p returns r: p is idle again
Return(p, op, from, r) ==
    /\ pc' = [pc EXCEPT ![p] = "idle"]
    /\ req' = [req EXCEPT ![p] = Idle]
    /\ last' = [proc |-> p, op |-> op, from |-> from, result |-> r]

Init ==
    /\ store = <<>>
    /\ now = 0
    /\ pc = [p \in Procs |-> "idle"]
    /\ req = [p \in Procs |-> Idle]
    /\ last = NoReturn

\* time passes
Tick ==
    /\ now < MaxTime
    /\ now' = now + 1
    /\ last' = NoReturn
    /\ UNCHANGED <<store, pc, req>>

-----------------------------------------------------------------------------
(* Arguments of the calls. *)

\* ScheduleProps = Omit<Schedule, id | state | createdAt | updatedAt | deletedAt>
ScheduleProps(names, frequencies, payloads) ==
    [name : names, startsAt : {MaxTime + 1}, frequencyMs : frequencies,
     payload : payloads]

\* Partial<Pick<ScheduleProps, frequencyMs | payload>> & { id }
UpdateProps(ids, frequencies, payloads) ==
    [id : ids] \cup [id : ids, frequencyMs : frequencies] \cup
    [id : ids, payload : payloads] \cup
    [id : ids, frequencyMs : frequencies, payload : payloads]

\* { name?, state?, limit }
SearchParams(names, states) ==
    [limit : 0..MaxLimit] \cup [limit : 0..MaxLimit, name : names] \cup
    [limit : 0..MaxLimit, state : states] \cup
    [limit : 0..MaxLimit, name : names, state : states]

\* the ids some call in flight refers to
InFlightIds == {req[p].id : p \in {q \in Procs : pc[q] # "idle"}}

\* uuidv7(): an id no row and no caller holds
FreshIds(ids) == ids \ (DOMAIN store \cup InFlightIds)

-----------------------------------------------------------------------------
(* create *)

\* the Schedule built with the props spread last, over the fields set before
NewSchedule_propsLast(props, id, t) ==
    [ name        |-> props.name,
      id          |-> id,
      state       |-> "STARTED",
      payload     |-> props.payload,
      startsAt    |-> props.startsAt,
      frequencyMs |-> props.frequencyMs,
      createdAt   |-> t,
      updatedAt   |-> t,
      deletedAt   |-> Null ]

\* the Schedule create builds from its props, the new id and the clock
NewSchedule(props, id, t) ==
    [ name        |-> props.name,
      id          |-> id,
      state       |-> "STARTED",
      payload     |-> props.payload,
      startsAt    |-> t,
      frequencyMs |-> props.frequencyMs,
      createdAt   |-> t,
      updatedAt   |-> t,
      deletedAt   |-> Null ]

\* create up to its await: the row to insert is built
create_call(p, props, id) ==
    /\ pc[p] = "idle"
    /\ pc' = [pc EXCEPT ![p] = "create"]
    /\ req' = [req EXCEPT ![p] =
           [op |-> "create", id |-> id, props |-> props, at |-> now,
            row |-> DbSchedule_to(NewSchedule(props, id, now))]]
    /\ last' = NoReturn
    /\ UNCHANGED <<store, now>>

\* the Result of create once its insert has run
CreateResult(inserted, fault) ==
    IF fault THEN Err("ErrorCreating")
    ELSE IF inserted = {} THEN Err("NoScheduleCreated")
    ELSE Ok(DbSchedule_from(CHOOSE row \in inserted : TRUE))

\* the insert runs (or the engine faults) and create returns
create_insert(p, fault) ==
    /\ pc[p] = "create"
    /\ store' = IF fault THEN store ELSE InsertRow(store, req[p].row)
    /\ Return(p, "create", StateOf(store, req[p].id),
              CreateResult(IF fault THEN {} ELSE Returning(store', req[p].id), fault))
    /\ UNCHANGED now

-----------------------------------------------------------------------------
(* get *)

\* get with its where clause left out: the first row of the table
GetResult_noWhere(tbl, scheduleId, fault) ==
    IF fault THEN Err("ErrorGetting")
    ELSE IF DOMAIN tbl = {} THEN Err("NoScheduleFound")
    ELSE Ok(DbSchedule_from(tbl[CHOOSE id \in DOMAIN tbl : TRUE]))

\* get that leaves soft-deleted rows out
GetResult_notDeleted(tbl, scheduleId, fault) ==
    IF fault THEN Err("ErrorGetting")
    ELSE IF scheduleId \notin DOMAIN tbl \/ tbl[scheduleId].deleted_at # Null
    THEN Err("NoScheduleFound")
    ELSE Ok(DbSchedule_from(tbl[scheduleId]))

\* the Result of get(db, scheduleId) on table tbl
GetResult(tbl, scheduleId, fault) ==
    IF fault THEN Err("ErrorGetting")
    ELSE IF scheduleId \notin DOMAIN tbl THEN Err("NoScheduleFound")
    ELSE Ok(DbSchedule_from(tbl[scheduleId]))

get(p, scheduleId, fault) ==
    /\ pc[p] = "idle"
    /\ Return(p, "get", StateOf(store, scheduleId), GetResult(store, scheduleId, fault))
    /\ UNCHANGED <<store, now>>

-----------------------------------------------------------------------------
(* transitionState *)

\* the values of a transitionState that stamps deleted_at on its way to DELETED
TransitionValues_stampDeleted(to, t) ==
    IF to = "DELETED" THEN [state |-> to, updated_at |-> t, deleted_at |-> t]
    ELSE [state |-> to, updated_at |-> t]

\* the values of a transitionState that restarts the schedule at the clock
TransitionValues_restart(to, t) == [state |-> to, updated_at |-> t, starts_at |-> t]

\* the values transitionState writes
TransitionValues(to, t) == [state |-> to, updated_at |-> t]

\* transitionState up to its second await: the read, the validation and, when
\* both pass, the update it issues
transitionState_get(p, scheduleId, to, fault) ==
    /\ pc[p] = "idle"
    /\ LET getSchedule == GetResult(store, scheduleId, fault)
           from == StateOf(store, scheduleId)
       IN  IF ~getSchedule.ok
           THEN Return(p, "transitionState", from, Err("NoScheduleFound"))
           ELSE IF ~ScheduleStateTransition_validate(getSchedule.value.state, to)
           THEN Return(p, "transitionState", from, Err("InvalidTransition"))
           ELSE /\ pc' = [pc EXCEPT ![p] = "transitionState"]
                /\ req' = [req EXCEPT ![p] =
                       [op |-> "transitionState", id |-> scheduleId, to |-> to,
                        at |-> now, values |-> TransitionValues(to, now)]]
                /\ last' = NoReturn
    /\ UNCHANGED <<store, now>>

\* the Result of an operation once its UPDATE ... RETURNING * has run
WriteResult(updated, fault, faultError, noRowError) ==
    IF fault THEN Err(faultError)
    ELSE IF updated = {} THEN Err(noRowError)
    ELSE Ok(DbSchedule_from(CHOOSE row \in updated : TRUE))

\* a statement that is run again after a fault, until it lands
Write_retry(p, op, fault, faultError, noRowError) ==
    /\ pc[p] = op
    /\ store' = UpdateRow(store, req[p].id, req[p].values)
    /\ Return(p, op, StateOf(store, req[p].id),
              WriteResult(Returning(store', req[p].id), FALSE, faultError, noRowError))
    /\ UNCHANGED now

\* the statement of caller p runs (or the engine faults) and its operation returns
Write(p, op, fault, faultError, noRowError) ==
    /\ pc[p] = op
    /\ store' = IF fault THEN store ELSE UpdateRow(store, req[p].id, req[p].values)
    /\ Return(p, op, StateOf(store, req[p].id),
              WriteResult(IF fault THEN {} ELSE Returning(store', req[p].id), fault,
                          faultError, noRowError))
    /\ UNCHANGED now

\* the update made conditional on the state it finds: one that the table no
\* longer lets move to the target is left alone
transitionState_update_conditional(p, fault) ==
    LET found == StateOf(store, req[p].id)
        stale == found # "none" /\ ~ScheduleStateTransition_validate(found, req[p].to)
    IN  /\ pc[p] = "transitionState"
        /\ store' = IF fault \/ stale THEN store
                    ELSE UpdateRow(store, req[p].id, req[p].values)
        /\ Return(p, "transitionState", found,
                  WriteResult(IF fault \/ stale THEN {} ELSE Returning(store', req[p].id),
                              fault, "ErrorTransitioning", "NoScheduleUpdated"))
        /\ UNCHANGED now

transitionState_update(p, fault) ==
    Write(p, "transitionState", fault, "ErrorTransitioning", "NoScheduleUpdated")

-----------------------------------------------------------------------------
(* update *)

\* newValues that writes the payload whether supplied or not
UpdateValues_payloadAlways(props, t) ==
    LET freq == IF Has(props, "frequencyMs") /\ TruthyNumber(props.frequencyMs)
                THEN {"frequency"} ELSE {}
    IN  [c \in freq \cup {"payload", "updated_at"} |->
            CASE c = "frequency"  -> IntervalLiteral(props.frequencyMs)
              [] c = "payload"    -> IF Has(props, "payload") THEN props.payload
                                     ELSE "null"
              [] c = "updated_at" -> t]

\* newValues of update
UpdateValues(props, t) ==
    LET freq == IF Has(props, "frequencyMs") /\ TruthyNumber(props.frequencyMs)
                THEN {"frequency"} ELSE {}
        pl   == IF Has(props, "payload") /\ TruthyJson(props.payload)
                THEN {"payload"} ELSE {}
    IN  [c \in freq \cup pl \cup {"updated_at"} |->
            CASE c = "frequency"  -> IntervalLiteral(props.frequencyMs)
              [] c = "payload"    -> props.payload
              [] c = "updated_at" -> t]

update_call(p, props) ==
    /\ pc[p] = "idle"
    /\ pc' = [pc EXCEPT ![p] = "update"]
    /\ req' = [req EXCEPT ![p] =
           [op |-> "update", id |-> props.id, props |-> props, at |-> now,
            values |-> UpdateValues(props, now)]]
    /\ last' = NoReturn
    /\ UNCHANGED <<store, now>>

update_write(p, fault) ==
    Write(p, "update", fault, "ErrorUpdating", "NoScheduleUpdated")

-----------------------------------------------------------------------------
(* remove *)

\* the values of a remove that leaves updated_at alone
RemoveValues_noUpdatedAt(t) == [state |-> "DELETED", deleted_at |-> t]

\* the values of a remove that stamps no deleted_at
RemoveValues_noDeletedAt(t) == [state |-> "DELETED", updated_at |-> t]

\* the values remove writes
RemoveValues(t) == [state |-> "DELETED", deleted_at |-> t, updated_at |-> t]

remove_call(p, id) ==
    /\ pc[p] = "idle"
    /\ pc' = [pc EXCEPT ![p] = "remove"]
    /\ req' = [req EXCEPT ![p] =
           [op |-> "remove", id |-> id, at |-> now, values |-> RemoveValues(now)]]
    /\ last' = NoReturn
    /\ UNCHANGED <<store, now>>

remove_write(p, fault) ==
    Write(p, "remove", fault, "ErrorDeleting", "NoScheduleDeleted")

-----------------------------------------------------------------------------
(* search *)

Min(a, b) == IF a < b THEN a ELSE b

\* the rows the WHERE clauses of search keep
SearchMatches(tbl, params) ==
    { id \in DOMAIN tbl :
        /\ (Has(params, "name") /\ TruthyString(params.name))
              => tbl[id].name = params.name
        /\ Has(params, "state") => tbl[id].state = params.state }

\* LIMIT n: any n of the matching rows, all of them when there are fewer
Limited(ids, n) == { s \in SUBSET ids : Cardinality(s) = Min(n, Cardinality(ids)) }

search(p, params, fault) ==
    /\ pc[p] = "idle"
    /\ IF fault
       THEN Return(p, "search", "none", Err("ErrorSearching"))
       ELSE \E rows \in Limited(SearchMatches(store, params), params.limit) :
              Return(p, "search", "none",
                     Ok({DbSchedule_from(store[id]) : id \in rows}))
    /\ UNCHANGED <<store, now>>

-----------------------------------------------------------------------------
(* Specifications. *)

\* one segment of some operation of caller p, its arguments drawn from inp
Step(p, inp) ==
    \/ \E props \in inp.create, id \in FreshIds(inp.fresh) : create_call(p, props, id)
    \/ \E fault \in BOOLEAN : create_insert(p, fault)
    \/ \E id \in inp.ids, fault \in BOOLEAN : get(p, id, fault)
    \/ \E id \in inp.ids, to \in ScheduleState, fault \in BOOLEAN :
          transitionState_get(p, id, to, fault)
    \/ \E fault \in BOOLEAN : transitionState_update(p, fault)
    \/ \E props \in inp.update : update_call(p, props)
    \/ \E fault \in BOOLEAN : update_write(p, fault)
    \/ \E id \in inp.ids : remove_call(p, id)
    \/ \E fault \in BOOLEAN : remove_write(p, fault)
    \/ \E params \in inp.search, fault \in BOOLEAN : search(p, params, fault)

\* Completed calls on one schedule: one caller, each call returns before the
\* next starts; every argument value, known and unknown ids.
SeqInputs ==
    [ fresh  |-> {"id1"},
      ids    |-> {"id1", UnknownId},
      create |-> ScheduleProps(Names, FrequencyInputs, Payloads),
      update |-> UpdateProps({"id1", UnknownId}, FrequencyInputs, Payloads),
      search |-> SearchParams({"a"}, {"STARTED"}) ]

SeqNext == Tick \/ Step("p1", SeqInputs)

SeqSpec == Init /\ [][SeqNext]_vars

\* Concurrent callers of one schedule: the segments of their calls interleave.
SharedInputs ==
    [ fresh  |-> {"id1"},
      ids    |-> {"id1"},
      create |-> ScheduleProps({"a"}, {90061001}, {"null"}),
      update |-> UpdateProps({"id1"}, {}, {"{}"}),
      search |-> {[limit |-> MaxLimit]} ]

Next == Tick \/ \E p \in Procs : Step(p, SharedInputs)

Spec == Init /\ [][Next]_vars

\* Searches over two schedules at one instant of the clock: one caller, every
\* name and state filter, the empty name included.
SearchInputs ==
    [ fresh  |-> Ids,
      ids    |-> Ids,
      create |-> ScheduleProps(Names, {90061001}, {"{}"}),
      update |-> UpdateProps(Ids, {}, {}),
      search |-> SearchParams(Names \cup {""}, ScheduleState) ]

SearchNext == Step("p1", SearchInputs)

SearchSpec == Init /\ [][SearchNext]_vars

\* The interval codec alone: a frequency is written as a literal by
\* DbSchedule.to, kept by the engine as an interval, and read by DbSchedule.from.
CodecInputs ==
    (0..MaxCodecMs) \cup
    { h * 3600000 + m * 60000 + sc * 1000 + ms :
        h \in {0, 1, 24, 25}, m \in {0, 1, 59}, sc \in {0, 1, 59}, ms \in {0, 1, 999} }

CodecInit ==
    /\ store = <<>>
    /\ now = 0
    /\ pc = [p \in Procs |-> IF p = "p1" THEN "codec_to" ELSE "idle"]
    /\ \E n \in CodecInputs :
         req = [p \in Procs |-> IF p = "p1" THEN [op |-> "codec", frequencyMs |-> n]
                                ELSE Idle]
    /\ last = NoReturn

\* DbSchedule.to: the literal for the frequency column
codec_to(p) ==
    /\ pc[p] = "codec_to"
    /\ pc' = [pc EXCEPT ![p] = "codec_column"]
    /\ req' = [req EXCEPT ![p] =
           [op |-> "codec", frequencyMs |-> req[p].frequencyMs,
            literal |-> DbSchedule_to([id |-> "id1", name |-> "a", state |-> "STARTED",
                            startsAt |-> 0, frequencyMs |-> req[p].frequencyMs,
                            payload |-> "null", createdAt |-> 0, updatedAt |-> 0,
                            deletedAt |-> Null]).frequency]]
    /\ UNCHANGED <<store, now, last>>

\* the engine keeps the literal as an interval and hands it back
codec_column(p) ==
    /\ pc[p] = "codec_column"
    /\ pc' = [pc EXCEPT ![p] = "codec_from"]
    /\ req' = [req EXCEPT ![p] =
           [op |-> "codec", frequencyMs |-> req[p].frequencyMs,
            interval |-> Column("frequency", req[p].literal)]]
    /\ UNCHANGED <<store, now, last>>

\* DbSchedule.from: the interval in milliseconds
codec_from(p) ==
    /\ pc[p] = "codec_from"
    /\ pc' = [pc EXCEPT ![p] = "codec_done"]
    /\ req' = [req EXCEPT ![p] =
           [op |-> "codec", frequencyMs |-> req[p].frequencyMs,
            interval |-> req[p].interval,
            decoded |-> postgresIntervalInMs(req[p].interval)]]
    /\ UNCHANGED <<store, now, last>>

CodecNext == \E p \in Procs : codec_to(p) \/ codec_column(p) \/ codec_from(p)

CodecSpec == CodecInit /\ [][CodecNext]_vars

-----------------------------------------------------------------------------
(* Properties. *)

\* the three legal edges of the schedule state machine
LegalEdges ==
    { <<"STARTED", "PAUSED">>, <<"STARTED", "DELETED">>, <<"PAUSED", "STARTED">> }

\* every id a call may name
AllIds == Ids \cup {UnknownId}

\* the step in which the statement of caller p's operation op ran and op returned
Returns(p, op) == pc[p] = op /\ pc'[p] = "idle"

\* C1: transitionState(id, to) on an existing schedule whose stored state is
\* `from`, with (from, to) not a legal edge, returns the invalid-transition
\* failure and leaves the table as it was.
C1_IllegalTransitionRejected ==
    [][\A p \in Procs, id \in DOMAIN store, to \in ScheduleState :
          (/\ transitionState_get(p, id, to, FALSE)
           /\ <<store[id].state, to>> \notin LegalEdges)
          => /\ last'.op = "transitionState"
             /\ last'.result = Err("InvalidTransition")
             /\ pc'[p] = "idle"
             /\ store' = store]_vars

\* an illegal transition out of DELETED has been refused
C1_Witness ==
    /\ last.op = "transitionState"
    /\ last.from = "DELETED"
    /\ last.result = Err("InvalidTransition")

\* C2: for every schedule, deletedAt is non-null iff state is DELETED.
C2_DeletedAtIffDeleted ==
    \A id \in DOMAIN store :
        (store[id].deleted_at # Null) <=> (store[id].state = "DELETED")

\* C3: over completed calls, every change of a stored state goes along a legal
\* edge.
C3_OnlyLegalEdges ==
    [][\A id \in DOMAIN store :
          store'[id].state # store[id].state
          => <<store[id].state, store'[id].state>> \in LegalEdges]_vars

\* C3 as amended: over completed calls, every change of a stored state goes
\* along a legal edge, or is the change PAUSED -> DELETED made by remove.
C3_LegalEdgesOrRemove ==
    [][\A id \in DOMAIN store :
          store'[id].state # store[id].state
          => \/ <<store[id].state, store'[id].state>> \in LegalEdges
             \/ /\ <<store[id].state, store'[id].state>> = <<"PAUSED", "DELETED">>
                /\ \E p \in Procs : Returns(p, "remove") /\ req[p].id = id]_vars

\* remove has moved a PAUSED schedule to DELETED
C3_Witness ==
    /\ last.op = "remove"
    /\ last.from = "PAUSED"
    /\ last.result.ok
    /\ last.result.value.state = "DELETED"

\* C4: once the stored state of a schedule is DELETED it stays DELETED, under
\* any interleaving of calls.
C4_DeletedIsTerminal ==
    [][\A id \in DOMAIN store :
          store[id].state = "DELETED" => store'[id].state = "DELETED"]_vars

\* C5: a successful create stores and returns a schedule with state STARTED,
\* deletedAt null, createdAt = updatedAt = startsAt = the clock reading of the
\* call (whatever startsAt the props carry), an id no stored schedule had, and
\* the name, frequencyMs and payload of the props; a failed create adds no row.
C5_CreateResult ==
    [][\A p \in Procs :
          Returns(p, "create") =>
            /\ last'.op = "create"
            /\ IF last'.result.ok
               THEN LET created == last'.result.value
                        props == req[p].props
                    IN  /\ created.state = "STARTED"
                        /\ created.deletedAt = Null
                        /\ created.createdAt = req[p].at
                        /\ created.updatedAt = req[p].at
                        /\ created.startsAt = req[p].at
                        /\ created.id \notin DOMAIN store
                        /\ created.name = props.name
                        /\ created.frequencyMs = props.frequencyMs
                        /\ created.payload = props.payload
                        /\ DOMAIN store' = DOMAIN store \cup {created.id}
                        /\ DbSchedule_from(store'[created.id]) = created
                        /\ \A id \in DOMAIN store : store'[id] = store[id]
               ELSE store' = store]_vars

\* create has returned a schedule made after the clock moved, with a
\* frequency of more than a day
C5_Witness ==
    /\ last.op = "create"
    /\ last.result.ok
    /\ last.result.value.createdAt > 0
    /\ last.result.value.frequencyMs = 90061001

\* C6: on an existing schedule in any state, remove succeeds when the engine
\* does not fault, whatever the transition table says; a get that follows
\* returns state DELETED, deletedAt non-null and updatedAt = deletedAt, with
\* name, startsAt, frequencyMs, payload and createdAt as before.
C6_RemoveResult ==
    [][\A p \in Procs :
          (remove_write(p, FALSE) /\ req[p].id \in DOMAIN store) =>
            LET before == DbSchedule_from(store[req[p].id])
                got == GetResult(store', req[p].id, FALSE)
            IN  /\ last'.op = "remove"
                /\ last'.result.ok
                /\ got.ok
                /\ got.value.state = "DELETED"
                /\ got.value.deletedAt # Null
                /\ got.value.updatedAt = got.value.deletedAt
                /\ got.value.id = before.id
                /\ got.value.name = before.name
                /\ got.value.startsAt = before.startsAt
                /\ got.value.frequencyMs = before.frequencyMs
                /\ got.value.payload = before.payload
                /\ got.value.createdAt = before.createdAt]_vars

\* remove has succeeded on a schedule that was already DELETED
C6_Witness ==
    /\ last.op = "remove"
    /\ last.from = "DELETED"
    /\ last.result.ok
    /\ last.result.value.deletedAt # Null

\* C7: the deletedAt of a schedule changes at most once, from null to an
\* instant: a remove of an already deleted schedule leaves it as it is.
C7_DeletedAtSetOnce ==
    [][\A id \in DOMAIN store :
          store'[id].deleted_at # store[id].deleted_at
          => store[id].deleted_at = Null]_vars

\* C8: update on an existing id succeeds when the engine does not fault and
\* writes only the fields supplied: without frequencyMs the frequency stays,
\* without payload the payload stays, updatedAt becomes the clock reading of
\* the call in every case, and state, deletedAt, id, name, startsAt and
\* createdAt stay.
C8_UpdateFrame ==
    [][\A p \in Procs :
          (update_write(p, FALSE) /\ req[p].id \in DOMAIN store) =>
            LET before == DbSchedule_from(store[req[p].id])
                after == DbSchedule_from(store'[req[p].id])
                props == req[p].props
            IN  /\ last'.op = "update"
                /\ last'.result = Ok(after)
                /\ ~Has(props, "frequencyMs") => after.frequencyMs = before.frequencyMs
                /\ ~Has(props, "payload") => after.payload = before.payload
                /\ after.updatedAt = req[p].at
                /\ after.state = before.state
                /\ after.deletedAt = before.deletedAt
                /\ after.id = before.id
                /\ after.name = before.name
                /\ after.startsAt = before.startsAt
                /\ after.createdAt = before.createdAt]_vars

\* update has returned a schedule whose updatedAt it moved past createdAt,
\* with a frequency and a payload
C8_Witness ==
    /\ last.op = "update"
    /\ last.result.ok
    /\ last.result.value.updatedAt > last.result.value.createdAt
    /\ last.result.value.frequencyMs = 90061001
    /\ last.result.value.payload = "{}"

\* the failure Results of the operations
Failures ==
    { Err(e) : e \in { "NoScheduleFound", "InvalidTransition", "NoScheduleCreated",
                       "NoScheduleUpdated", "NoScheduleDeleted", "ErrorCreating",
                       "ErrorGetting", "ErrorTransitioning", "ErrorUpdating",
                       "ErrorDeleting", "ErrorSearching" } }

\* C9: on an id with no row, get, transitionState, update and remove return a
\* failure Result and leave the table as it was.
C9_NotFound ==
    [][\A p \in Procs, id \in AllIds \ DOMAIN store, fault \in BOOLEAN :
          (\/ get(p, id, fault)
           \/ \E to \in ScheduleState : transitionState_get(p, id, to, fault)
           \/ update_write(p, fault) /\ req[p].id = id
           \/ remove_write(p, fault) /\ req[p].id = id)
          => /\ last'.result \in Failures
             /\ pc'[p] = "idle"
             /\ store' = store]_vars

\* remove of an id with no row has failed while another schedule is stored
C9_Witness ==
    /\ last.op = "remove"
    /\ last.from = "none"
    /\ last.result = Err("NoScheduleDeleted")
    /\ DOMAIN store # {}

\* the schedules that match every filter supplied in params
ExactMatches(tbl, params) ==
    { id \in DOMAIN tbl :
        /\ Has(params, "name") => tbl[id].name = params.name
        /\ Has(params, "state") => tbl[id].state = params.state }

\* C10: when the engine does not fault, search succeeds with schedules that
\* each match every supplied filter, min(limit, number of matching rows) of
\* them, and leaves the table as it was.
C10_SearchResult ==
    [][\A p \in Procs, params \in SearchInputs.search :
          (last'.op = "search" /\ search(p, params, FALSE)) =>
            /\ last'.result.ok
            /\ last'.result.value \subseteq
                    {DbSchedule_from(store[id]) : id \in ExactMatches(store, params)}
            /\ Cardinality(last'.result.value) =
                    Min(params.limit, Cardinality(ExactMatches(store, params)))
            /\ store' = store]_vars

\* C11: a non-negative frequencyMs written as "<n> milliseconds", kept by the
\* engine as an interval of hours, minutes, seconds and milliseconds, and
\* decoded with the fixed weights, comes back as the same number.
C11_CodecRoundTrip ==
    \A p \in Procs :
        pc[p] = "codec_done" => req[p].decoded = req[p].frequencyMs

\* 90000000 ms has gone through the codec as an interval of 25 hours
C11_Witness ==
    /\ pc["p1"] = "codec_done"
    /\ req["p1"].frequencyMs = 90000000
    /\ req["p1"].interval = [x \in {"hours"} |-> 25]
    /\ req["p1"].decoded = 90000000

\* C12: rows are never erased: the set of stored ids never shrinks, and get on
\* a stored id succeeds when the engine does not fault and returns the row as
\* stored, soft-deleted or not.
C12_RowsNeverErased ==
    [][/\ DOMAIN store \subseteq DOMAIN store'
       /\ \A p \in Procs, id \in DOMAIN store :
            (last'.op = "get" /\ get(p, id, FALSE))
            => /\ last'.result = Ok(DbSchedule_from(store[id]))
               /\ store' = store]_vars

\* get has returned a soft-deleted schedule
C12_Witness ==
    /\ last.op = "get"
    /\ last.result.ok
    /\ last.result.value.state = "DELETED"
    /\ last.result.value.deletedAt # Null

\* C13: every persisted schedule has a frequencyMs greater than zero.
C13_FrequencyPositive ==
    \A id \in DOMAIN store : DbSchedule_from(store[id]).frequencyMs > 0

\* C14: no retries, no throw: a statement on which the engine faults leaves the
\* table as it was and its operation returns a failure at once; every
\* operation returns when its statement has run, transitionState alone going
\* on from its read to one write.
C14_FaultSurfaced ==
    [][\A p \in Procs :
          /\ (\/ create_insert(p, TRUE)
              \/ transitionState_update(p, TRUE)
              \/ update_write(p, TRUE)
              \/ remove_write(p, TRUE)
              \/ \E id \in AllIds : get(p, id, TRUE)
              \/ \E id \in AllIds, to \in ScheduleState :
                    transitionState_get(p, id, to, TRUE)
              \/ \E params \in SeqInputs.search : search(p, params, TRUE))
             => /\ last'.proc = p
                /\ last'.result \in Failures
                /\ pc'[p] = "idle"
                /\ store' = store
          /\ (pc[p] # "idle" /\ pc'[p] # pc[p])
             => /\ pc'[p] = "idle"
                /\ last'.proc = p
                /\ last'.op = pc[p]
          /\ (pc[p] = "idle" /\ pc'[p] = "idle" /\ last'.proc = p)
             => store' = store]_vars

\* the engine has faulted on the write of a transitionState whose read went
\* through, and the schedule is as it was
C14_Witness ==
    /\ last.op = "transitionState"
    /\ last.result = Err("ErrorTransitioning")
    /\ last.from = "STARTED"
    /\ \E id \in DOMAIN store : store[id].state = "STARTED"

\* C15: the update of transitionState is unconditional: run on an existing
\* schedule without a fault it stores the target state and returns success,
\* whatever state it finds, so that of two concurrent calls that both read
\* the same state the later write lands on a state the table does not let
\* move to its target.
C15_StaleWriteLands ==
    [][\A p \in Procs :
          (transitionState_update(p, FALSE) /\ req[p].id \in DOMAIN store)
          => /\ last'.result.ok
             /\ last'.result.value.state = req[p].to
             /\ store'[req[p].id].state = req[p].to]_vars

\* a transitionState has returned success for PAUSED -> DELETED: it read
\* STARTED, and another call's PAUSED landed before its write
C15_Witness ==
    /\ last.op = "transitionState"
    /\ last.result.ok
    /\ last.from = "PAUSED"
    /\ last.result.value.state = "DELETED"
    /\ <<last.from, last.result.value.state>> \notin LegalEdges

\* C16: a completed transitionState along a legal edge succeeds, stores the
\* target state and the clock reading of the call in updatedAt, and leaves
\* id, name, startsAt, frequencyMs, payload, createdAt and deletedAt alone.
C16_TransitionFrame ==
    [][\A p \in Procs :
          /\ \A id \in DOMAIN store, to \in ScheduleState :
                (transitionState_get(p, id, to, FALSE)
                    /\ <<store[id].state, to>> \in LegalEdges)
                => pc'[p] = "transitionState" /\ req'[p].id = id /\ req'[p].to = to
          /\ (transitionState_update(p, FALSE) /\ req[p].id \in DOMAIN store)
             => LET before == DbSchedule_from(store[req[p].id])
                    after == DbSchedule_from(store'[req[p].id])
                IN  /\ <<before.state, req[p].to>> \in LegalEdges
                    /\ last'.result = Ok(after)
                    /\ after.state = req[p].to
                    /\ after.updatedAt = req[p].at
                    /\ after.id = before.id
                    /\ after.name = before.name
                    /\ after.startsAt = before.startsAt
                    /\ after.frequencyMs = before.frequencyMs
                    /\ after.payload = before.payload
                    /\ after.createdAt = before.createdAt
                    /\ after.deletedAt = before.deletedAt
                    /\ \A other \in DOMAIN store \ {req[p].id} :
                          store'[other] = store[other]]_vars

\* transitionState has moved a schedule from STARTED to DELETED after the
\* clock moved, and its deletedAt is still null
C16_Witness ==
    /\ last.op = "transitionState"
    /\ last.result.ok
    /\ last.from = "STARTED"
    /\ last.result.value.state = "DELETED"
    /\ last.result.value.deletedAt = Null
    /\ last.result.value.updatedAt > last.result.value.createdAt

\* C17: after a successful update that supplies a payload, the stored payload
\* is the one supplied, whatever JSON value it is.
C17_SuppliedPayloadWritten ==
    [][\A p \in Procs :
          (update_write(p, FALSE) /\ req[p].id \in DOMAIN store
              /\ Has(req[p].props, "payload"))
          => /\ last'.result.ok
             /\ store'[req[p].id].payload = req[p].props.payload]_vars

\* C18: transitionState reports not-found only when no row has the id; a fault
\* of the engine on its read of an existing schedule is not reported so.
C18_NotFoundOnlyWhenAbsent ==
    (last.op = "transitionState" /\ last.result = Err("NoScheduleFound"))
    => last.from = "none"

\* C19: the id, name, startsAt and createdAt of a stored schedule never
\* change, under any interleaving of calls.
C19_ImmutableFields ==
    [][\A id \in DOMAIN store :
          /\ store'[id].id = id
          /\ store'[id].id = store[id].id
          /\ store'[id].name = store[id].name
          /\ store'[id].starts_at = store[id].starts_at
          /\ store'[id].created_at = store[id].created_at]_vars

\* a schedule has been updated, paused or restarted, and removed, by calls
\* whose writes landed after the clock moved
C19_Witness ==
    \E id \in DOMAIN store :
        /\ store[id].state = "DELETED"
        /\ store[id].payload = "{}"
        /\ store[id].deleted_at # Null
        /\ store[id].updated_at > store[id].created_at
        /\ last.op = "transitionState"
        /\ last.result.ok

\* C20: the stored updatedAt of a schedule never decreases and is never before
\* createdAt, under any interleaving of calls.
C20_UpdatedAtMonotone ==
    [][\A id \in DOMAIN store :
          /\ store'[id].updated_at >= store[id].updated_at
          /\ store'[id].updated_at >= store'[id].created_at]_vars

\* C20 as amended: the stored updatedAt is never before createdAt nor after
\* the clock, and every write of transitionState, update and remove that
\* lands sets it to the clock reading its operation took, which may be
\* earlier than the updatedAt it replaces.
C20_UpdatedAtIsWritersReading ==
    [][/\ \A id \in DOMAIN store' :
            /\ store'[id].updated_at >= store'[id].created_at
            /\ store'[id].updated_at <= now'
       /\ \A p \in Procs :
            ((\/ transitionState_update(p, FALSE)
              \/ update_write(p, FALSE)
              \/ remove_write(p, FALSE)) /\ req[p].id \in DOMAIN store)
            => /\ store'[req[p].id].updated_at = req[p].at
               /\ last'.result.ok
               /\ last'.result.value.updatedAt = req[p].at]_vars

\* a write has returned an updatedAt earlier than the clock, on a schedule
\* another call has removed since the writer read the clock
C20_Witness ==
    /\ last.op \in {"transitionState", "update"}
    /\ last.result.ok
    /\ last.result.value.updatedAt < now
    /\ last.result.value.deletedAt # Null
    /\ last.result.value.updatedAt < last.result.value.deletedAt

====
